---------------------------- MODULE Spec2Model ----------------------------
(***************************************************************************)
(* Runtime Readiness Analyzer (src/server.py).                             *)
(*                                                                         *)
(* The server exposes four tool operations over a host (CPU, memory, GPU)  *)
(* and a project directory (a requirements.txt manifest and the files an   *)
(* os.walk of the directory visits).  The program keeps no state of its    *)
(* own between invocations: the state of the model is the host, the file   *)
(* system, and what the most recent invocation produced.                   *)
(*                                                                         *)
(* Python strings are TLA+ strings; str methods are operators computed     *)
(* character by character.  A TextContent is modelled by its text: a plain *)
(* string [plain |-> s], or the JSON document json.dumps wrote,            *)
(* [json |-> v], which json.loads reads back and which it rejects for a    *)
(* plain string.                                                           *)
(***************************************************************************)
EXTENDS Integers, Sequences, FiniteSets, TLC

VARIABLES
    host,       \* what psutil / torch report about the machine
    fs,         \* the project directory: manifest and walked files
    name,       \* the tool name of the most recent call_tool
    result,     \* what that invocation returned or raised
    ready,      \* generate_readiness_report's local `ready` at its end
    issues,     \* generate_readiness_report's local `issues` at its end
    origin,     \* history: for each entry of detect_heavy_requirements'
                \* list, the walk position of the file it came from
                \* (0: the manifest scan or the sentinel)
    seen,       \* history: tool name -> what its first invocation produced
    repeat      \* history: the most recent invocation was of a tool
                \* invoked before

vars == <<host, fs, name, result, ready, issues, origin, seen, repeat>>

---------------------------------------------------------------------------
(* Bounds of the model *)

MaxLines == 2       \* lines in requirements.txt
MaxFiles == 2       \* files the directory walk visits

---------------------------------------------------------------------------
(* Python str operations *)

Upper == "ABCDEFGHIJKLMNOPQRSTUVWXYZ"
Lowercase == "abcdefghijklmnopqrstuvwxyz"

CharAt(s, i) == SubSeq(s, i, i)

\* upper-case letter -> lower-case letter
LowerOf ==
    [c \in {CharAt(Upper, i) : i \in 1..Len(Upper)} |->
        CharAt(Lowercase, CHOOSE i \in 1..Len(Upper) : CharAt(Upper, i) = c)]

LowerChar(c) == IF c \in DOMAIN LowerOf THEN LowerOf[c] ELSE c

\* str.lower()
RECURSIVE lower(_)
lower(s) ==
    IF s = "" THEN "" ELSE LowerChar(CharAt(s, 1)) \o lower(SubSeq(s, 2, Len(s)))

Whitespace == {" ", "\t", "\n", "\r"}

RECURSIVE lstrip(_)
lstrip(s) ==
    IF s # "" /\ CharAt(s, 1) \in Whitespace
    THEN lstrip(SubSeq(s, 2, Len(s)))
    ELSE s

RECURSIVE rstrip(_)
rstrip(s) ==
    IF s # "" /\ CharAt(s, Len(s)) \in Whitespace
    THEN rstrip(SubSeq(s, 1, Len(s) - 1))
    ELSE s

strip(s) == rstrip(lstrip(s))

startswith(s, prefix) ==
    Len(s) >= Len(prefix) /\ SubSeq(s, 1, Len(prefix)) = prefix

endswith(s, suffix) ==
    Len(s) >= Len(suffix) /\ SubSeq(s, Len(s) - Len(suffix) + 1, Len(s)) = suffix

\* Python's `sub in s`
contains(s, sub) ==
    \E i \in 1..(Len(s) - Len(sub) + 1) : SubSeq(s, i, i + Len(sub) - 1) = sub

RECURSIVE join(_, _)
join(sep, items) ==
    IF items = <<>> THEN ""
    ELSE IF Len(items) = 1 THEN items[1]
    ELSE items[1] \o sep \o join(sep, Tail(items))


---------------------------------------------------------------------------
(* Values *)

\* TextContent(type="text", text=...) with a plain text
Plain(s) == [plain |-> s]

\* TextContent(type="text", text=json.dumps(v, indent=2))
Json(v) == [json |-> v]

IsPlain(t) == "plain" \in DOMAIN t
IsJson(t) == "json" \in DOMAIN t

\* How an invocation ends: a returned list of TextContent, or an exception
\* that leaves the operation.
Return(entries) == [kind |-> "return", entries |-> entries, exc |-> "None"]
Raise(exc) == [kind |-> "raise", entries |-> <<>>, exc |-> exc]

\* dict.get(key, default)
Get(d, key, default) == IF key \in DOMAIN d THEN d[key] ELSE default

SeqUpTo(S, n) == UNION {[1..k -> S] : k \in 0..n}

---------------------------------------------------------------------------
(* The host.  Memory is counted in MiB; a figure in GB is kept in          *)
(* hundredths of a GB, which is what round(x, 2) leaves.                   *)

AvailableMiB == {2048, 4094, 4096, 8192}

Hosts ==
    {[fail |-> TRUE, total_mib |-> 16384, available_mib |-> 0, cuda |-> FALSE]}
    \cup {[fail |-> FALSE, total_mib |-> 16384, available_mib |-> m, cuda |-> c] :
            m \in AvailableMiB, c \in BOOLEAN}

\* round(mib / 1024, 2) in hundredths: Python rounds a tie to the even
\* neighbour, and mib / 1024 is exact in binary floating point.
round2(mib) ==
    LET q == (mib * 100) \div 1024
        r == (mib * 100) % 1024
    IN  IF r < 512 THEN q
        ELSE IF r > 512 THEN q + 1
        ELSE IF q % 2 = 0 THEN q ELSE q + 1

\* str() of a float that has at most two decimals, given in hundredths
float_str(h) ==
    ToString(h \div 100) \o "." \o
        (IF h % 10 = 0 THEN ToString((h % 100) \div 10)
         ELSE ToString((h % 100) \div 10) \o ToString(h % 10))

---------------------------------------------------------------------------
(* The project directory *)

LinePool == {"torch>=2.0", "Transformers ", "diffusers", "  # note", "#c", ""}

FilePool ==
    { [file |-> "a.py", readable |-> TRUE,  content |-> "torch.cuda BERT"],
      [file |-> "b.py", readable |-> TRUE,  content |-> "ResNet"],
      [file |-> "d.py", readable |-> TRUE,  content |-> "tensorflow.device"],
      [file |-> "c.py", readable |-> FALSE, content |-> "torch.cuda"],
      [file |-> "n.txt", readable |-> FALSE, content |-> "gpt" ] }

Manifests ==
    {[exists |-> FALSE, readable |-> FALSE, lines |-> <<>>],
     [exists |-> TRUE, readable |-> FALSE, lines |-> <<>>]}
    \cup {[exists |-> TRUE, readable |-> TRUE, lines |-> l] :
            l \in SeqUpTo(LinePool, MaxLines)}

FileSystems ==
    {[manifest |-> m, walk |-> w] : m \in Manifests, w \in SeqUpTo(FilePool, MaxFiles)}

\* Mutant: the existence test is missing.
exists_always(m) == TRUE

\* os.path.exists(req_file)
exists(m) == m.exists

\* open(path, "r"): "ok", or the OSError it raises (the exception's name
\* stands for its message too)
open(f) ==
    IF "exists" \in DOMAIN f /\ ~f.exists THEN "FileNotFoundError"
    ELSE IF ~f.readable THEN "PermissionError"
    ELSE "ok"

\* iterating the manifest: each line with its line end
readlines(m) == [i \in 1..Len(m.lines) |-> m.lines[i] \o "\n"]

\* f.read() of the manifest
RECURSIVE concat(_)
concat(items) == IF items = <<>> THEN "" ELSE Head(items) \o concat(Tail(items))

read(m) == concat(readlines(m))

---------------------------------------------------------------------------
(* check_system_resources *)

\* The dictionary `result` the operation serialises.  Its cpu, disk and
\* platform sections are host facts no operation reads back; the memory and
\* gpu sections are the ones the readiness rules read.
snapshot(h) ==
    [memory |-> [total_gb |-> round2(h.total_mib),
                 available_gb |-> round2(h.available_mib)],
     gpu |-> [available |-> h.cuda,
              info |-> IF h.cuda THEN "CUDA available: device 0"
                       ELSE "No GPU detected"]]

check_system_resources(h) ==
    IF h.fail
    THEN Return(<<Plain("Error checking system resources: " \o "inspection failed")>>)
    ELSE Return(<<Json(snapshot(h))>>)

---------------------------------------------------------------------------
(* analyze_project_dependencies *)

\* the condition of the list comprehension
keeps_line(line) == strip(line) # "" /\ ~startswith(line, "#")

python_packages_of(m) ==
    LET kept == SelectSeq(readlines(m), keeps_line)
    IN  [i \in 1..Len(kept) |-> strip(kept[i])]

analyze_project_dependencies(d) ==
    IF ~exists(d.manifest)
    THEN Return(<<Json([python_packages |-> <<>>])>>)
    ELSE IF open(d.manifest) # "ok"
    THEN Return(<<Plain("Error analyzing dependencies: " \o open(d.manifest))>>)
    ELSE Return(<<Json([python_packages |-> python_packages_of(d.manifest)])>>)

---------------------------------------------------------------------------
(* detect_heavy_requirements *)

FrameworkLibs == {"tensorflow", "torch", "keras"}
LargeModelLibs == {"transformers", "diffusers"}
GpuPatterns == {"torch.cuda", "tensorflow.device"}
ModelNames == {"bert", "gpt", "resnet"}

FrameworkText == "ML framework detected - may require GPU/RAM"
LargeModelText == "Large ML models detected - high GPU/VRAM recommended"
GpuUsagePrefix == "GPU usage detected in "
ModelRefPrefix == "Large ML model reference detected in "
SentinelText == "No heavy computational requirements detected"

\* Mutant: the list is kept between invocations instead of starting empty.
heavy_indicators_kept ==
    IF name = "detect_heavy_requirements" /\ result.kind = "return"
    THEN result.entries ELSE <<>>

\* the list heavy_indicators starts from
heavy_indicators_init == <<>>

\* Mutant: one finding for each keyword that occurs.
manifest_findings_per_keyword(reqs) ==
    LET one(lib, text) == IF contains(reqs, lib) THEN <<Plain(text)>> ELSE <<>>
    IN  one("tensorflow", FrameworkText) \o one("torch", FrameworkText)
        \o one("keras", FrameworkText)
        \o one("transformers", LargeModelText) \o one("diffusers", LargeModelText)

\* the two tests on the lowercased manifest text
manifest_findings(reqs) ==
    (IF \E lib \in FrameworkLibs : contains(reqs, lib)
     THEN <<Plain(FrameworkText)>> ELSE <<>>)
    \o
    (IF \E lib \in LargeModelLibs : contains(reqs, lib)
     THEN <<Plain(LargeModelText)>> ELSE <<>>)

\* the two tests on one source file's lowercased content
file_findings(file, code) ==
    (IF \E p \in GpuPatterns : contains(code, p)
     THEN <<Plain(GpuUsagePrefix \o file)>> ELSE <<>>)
    \o
    (IF \E model \in ModelNames : contains(code, model)
     THEN <<Plain(ModelRefPrefix \o file)>> ELSE <<>>)

\* Mutant: the files are visited last to first.
walk_order_reversed(w) == [k \in 1..Len(w) |-> Len(w) + 1 - k]

\* the order in which the loop over os.walk visits the files
walk_order(w) == [k \in 1..Len(w) |-> k]

\* A scan in progress: the list so far, where each entry came from, and the
\* exception that ended the scan ("None" while it runs).
Scan(indicators, from, exc) == [indicators |-> indicators, from |-> from, exc |-> exc]

\* the manifest block
scan_manifest(d, acc) ==
    IF ~exists(d.manifest) THEN acc
    ELSE IF open(d.manifest) # "ok" THEN Scan(acc.indicators, acc.from, open(d.manifest))
    ELSE LET found == manifest_findings(lower(read(d.manifest)))
         IN  Scan(acc.indicators \o found,
                  acc.from \o [i \in 1..Len(found) |-> 0], "None")

\* the loop over the walked files, from position i of the visiting order
RECURSIVE scan_files(_, _, _, _)
scan_files(w, order, i, acc) ==
    IF acc.exc # "None" \/ i > Len(order) THEN acc
    ELSE LET f == w[order[i]]
         IN  IF ~endswith(f.file, ".py") THEN scan_files(w, order, i + 1, acc)
             ELSE IF open(f) # "ok" THEN Scan(acc.indicators, acc.from, open(f))
             ELSE LET found == file_findings(f.file, lower(f.content))
                  IN  scan_files(w, order, i + 1,
                        Scan(acc.indicators \o found,
                             acc.from \o [j \in 1..Len(found) |-> order[i]], "None"))

\* the sentinel for an empty list
with_sentinel(acc) ==
    IF acc.exc = "None" /\ acc.indicators = <<>>
    THEN Scan(<<Plain(SentinelText)>>, <<0>>, "None")
    ELSE acc

heavy_scan(d, start) ==
    with_sentinel(
        scan_files(d.walk, walk_order(d.walk), 1,
            scan_manifest(d, Scan(start, [i \in 1..Len(start) |-> 0], "None"))))

detect_heavy_requirements(d, start) ==
    LET s == heavy_scan(d, start)
    IN  IF s.exc # "None" THEN Raise(s.exc) ELSE Return(s.indicators)

---------------------------------------------------------------------------
(* generate_readiness_report *)

GpuMarker == "GPU usage detected"
GpuIssue == "GPU is required but not available"
RamThresholdGB == 4

\* json.loads(text): "ok", or the exception it raises for a text that is
\* no JSON document
json_loads(t) == IF IsJson(t) THEN "ok" ELSE "JSONDecodeError"

\* Mutant: the GPU check ignores the GPU-available flag.
gpu_item_fires_any(item, gpu_available) == contains(item.plain, GpuMarker)

\* the condition of the GPU check, for one entry of heavy_check
gpu_item_fires(item, gpu_available) ==
    contains(item.plain, GpuMarker) /\ ~gpu_available

\* Mutant: the comparison with the threshold is not strict.
ram_fires_inclusive(available_memory) == available_memory <= RamThresholdGB * 100

\* the condition of the RAM check; available_memory in hundredths of a GB
ram_fires(available_memory) == available_memory < RamThresholdGB * 100

\* the issues the loop over heavy_check appends
RECURSIVE gpu_issues(_, _)
gpu_issues(heavy_check, gpu_available) ==
    IF heavy_check = <<>> THEN <<>>
    ELSE (IF gpu_item_fires(Head(heavy_check), gpu_available)
          THEN <<GpuIssue>> ELSE <<>>)
         \o gpu_issues(Tail(heavy_check), gpu_available)

ram_issues(available_memory) ==
    IF ram_fires(available_memory)
    THEN <<"Not enough RAM: " \o float_str(available_memory) \o " GB available">>
    ELSE <<>>

\* `ready` and `issues` after both checks
readiness(resources_json, heavy_check) ==
    LET gpu_available == Get(Get(resources_json, "gpu", <<>>), "available", FALSE)
        available_memory == Get(Get(resources_json, "memory", <<>>), "available_gb", 0)
        gpu_fired == \E i \in 1..Len(heavy_check) :
                        gpu_item_fires(heavy_check[i], gpu_available)
    IN  [ready |-> ~gpu_fired /\ ~ram_fires(available_memory),
         issues |-> gpu_issues(heavy_check, gpu_available)
                    \o ram_issues(available_memory)]

\* The two markers are emoji in the source; TLA+ strings are ASCII.
verdict_text(v) ==
    IF v.ready THEN "[ok] Project is ready to run!"
    ELSE "[warning] Project may not run properly: " \o join(", ", v.issues)

NoVerdict == [ready |-> TRUE, issues |-> <<>>]

\* The invocation's end and the verdict it computed (NoVerdict when it
\* raised before the readiness logic).
generate_readiness_report(h, d, start) ==
    LET resources_check == check_system_resources(h)
        dependencies_check == analyze_project_dependencies(d)
        heavy_check == detect_heavy_requirements(d, start)
        resources_text == resources_check.entries[1]
        v == readiness(resources_text.json, heavy_check.entries)
    IN  IF heavy_check.kind = "raise"
        THEN [end |-> Raise(heavy_check.exc), verdict |-> NoVerdict]
        ELSE IF json_loads(resources_text) # "ok"
        THEN [end |-> Raise(json_loads(resources_text)), verdict |-> NoVerdict]
        ELSE [end |-> Return(
                    <<Plain("=== System Resources Check ===")>>
                    \o resources_check.entries
                    \o <<Plain("=== Project Dependencies Check ===")>>
                    \o dependencies_check.entries
                    \o <<Plain("=== Heavy Requirements Check ===")>>
                    \o heavy_check.entries
                    \o <<Plain("=== Verdict ==="), Plain(verdict_text(v))>>),
              verdict |-> v]

---------------------------------------------------------------------------
(* The server: one action per tool invocation *)

NoResult == [kind |-> "none", entries |-> <<>>, exc |-> "None"]

\* the state before the first invocation, over the environments E
Start(hosts, projects) ==
    /\ host \in hosts
    /\ fs \in projects
    /\ name = ""
    /\ result = NoResult
    /\ ready = TRUE
    /\ issues = <<>>
    /\ origin = <<>>
    /\ seen = <<>>
    /\ repeat = FALSE

\* what an invocation leaves behind
Ends(tool, end, v, from) ==
    /\ name' = tool
    /\ result' = end
    /\ ready' = v.ready
    /\ issues' = v.issues
    /\ origin' = from
    /\ UNCHANGED <<host, fs>>

CheckSystemResources ==
    Ends("check_system_resources", check_system_resources(host), NoVerdict, <<>>)

AnalyzeProjectDependencies ==
    Ends("analyze_project_dependencies", analyze_project_dependencies(fs),
         NoVerdict, <<>>)

DetectHeavyRequirements ==
    LET s == heavy_scan(fs, heavy_indicators_init)
    IN  Ends("detect_heavy_requirements",
             IF s.exc # "None" THEN Raise(s.exc) ELSE Return(s.indicators),
             NoVerdict, s.from)

GenerateReadinessReport ==
    LET r == generate_readiness_report(host, fs, heavy_indicators_init)
    IN  Ends("generate_readiness_report", r.end, r.verdict, <<>>)

\* call_tool's else branch
UnknownTool ==
    Ends("unknown_tool", Raise("ValueError"), NoVerdict, <<>>)

\* the history variable keeps what the first invocation of each tool produced
Record ==
    /\ seen' = IF name' \in DOMAIN seen THEN seen ELSE (name' :> result') @@ seen
    /\ repeat' = (name' \in DOMAIN seen)

Unrecorded == UNCHANGED <<seen, repeat>>

\* call_tool dispatches on the tool name
Next ==
    \/ CheckSystemResources /\ Unrecorded
    \/ AnalyzeProjectDependencies /\ Unrecorded
    \/ DetectHeavyRequirements /\ Unrecorded
    \/ GenerateReadinessReport /\ Unrecorded
    \/ UnknownTool /\ Unrecorded

NextRecorded ==
    \/ CheckSystemResources /\ Record
    \/ AnalyzeProjectDependencies /\ Record
    \/ DetectHeavyRequirements /\ Record
    \/ GenerateReadinessReport /\ Record
    \/ UnknownTool /\ Record

\* Environments.  Spec ranges over every host and every project; the other
\* specifications each keep one dimension full and the others small.
FixedHost == [fail |-> FALSE, total_mib |-> 16384, available_mib |-> 8192, cuda |-> FALSE]
FailedHost == [fail |-> TRUE, total_mib |-> 16384, available_mib |-> 0, cuda |-> FALSE]

FewManifests ==
    {[exists |-> FALSE, readable |-> FALSE, lines |-> <<>>],
     [exists |-> TRUE, readable |-> FALSE, lines |-> <<>>],
     [exists |-> TRUE, readable |-> TRUE, lines |-> <<"torch>=2.0", "Transformers ">>]}

FewWalks ==
    {<<>>, <<[file |-> "a.py", readable |-> TRUE, content |-> "torch.cuda BERT"]>>}

Init == Start(Hosts, FileSystems)

InitManifest ==
    Start({FixedHost}, {[manifest |-> m, walk |-> w] : m \in Manifests, w \in FewWalks})

InitProject ==
    Start(Hosts, {[manifest |-> m, walk |-> w] :
                    m \in FewManifests, w \in SeqUpTo(FilePool, MaxFiles)})

InitRecorded ==
    Start({FixedHost, FailedHost},
          {[manifest |-> m, walk |-> w] :
                    m \in {m \in FewManifests : open(m) # "PermissionError"},
                    w \in SeqUpTo(FilePool, MaxFiles)})

Spec == Init /\ [][Next]_vars

SpecManifest == InitManifest /\ [][Next]_vars

SpecProject == InitProject /\ [][Next]_vars

SpecRecorded == InitRecorded /\ [][NextRecorded]_vars

---------------------------------------------------------------------------
(* Properties *)

Tools == {"check_system_resources", "analyze_project_dependencies",
          "detect_heavy_requirements", "generate_readiness_report"}

Returned(tool) == name = tool /\ result.kind = "return"

Count(seq, x) == Cardinality({i \in 1..Len(seq) : seq[i] = x})

\* The parts of a returned report: the resource snapshot is its second
\* entry, the heavy-usage findings lie between the third header and the
\* verdict header.
ReportSnapshot == result.entries[2].json
ReportHeavy == SubSeq(result.entries, 6, Len(result.entries) - 2)
HasGpuFinding(findings) ==
    \E i \in 1..Len(findings) : contains(findings[i].plain, "GPU usage detected")
IsRamIssue(issue) == startswith(issue, "Not enough RAM: ")
ManifestReads == fs.manifest.exists /\ fs.manifest.readable

\* C1: each of the four operations ends by returning a list of text
\* entries, whatever the host and the file system; none raises.
C1_NoExceptionEscapes ==
    name \in Tools =>
        /\ result.kind = "return"
        /\ \A i \in 1..Len(result.entries) :
                IsPlain(result.entries[i]) \/ IsJson(result.entries[i])

\* C2: in detect_heavy_requirements an unreadable source file does not end
\* the scan: the operation returns, and the findings of every readable .py
\* file of the walk are in the returned list.
C2_UnreadableFileIsSkipped ==
    (name = "detect_heavy_requirements"
        /\ (~fs.manifest.exists \/ fs.manifest.readable)) =>
        /\ result.kind = "return"
        /\ \A k \in 1..Len(fs.walk) :
                (endswith(fs.walk[k].file, ".py") /\ fs.walk[k].readable) =>
                    LET found == file_findings(fs.walk[k].file,
                                               lower(fs.walk[k].content))
                    IN  \A i \in 1..Len(found) :
                            \E j \in 1..Len(result.entries) :
                                result.entries[j] = found[i]

\* C3: the verdict carries at most two issues, at most one per rule, and
\* ready holds exactly when there is no issue; with 8.0 GB available, a GPU
\* finding and no GPU there is exactly one issue.
C3_AtMostOneIssuePerRule ==
    Returned("generate_readiness_report") =>
        /\ Len(issues) <= 2
        /\ Count(issues, "GPU is required but not available") <= 1
        /\ Cardinality({i \in 1..Len(issues) : IsRamIssue(issues[i])}) <= 1
        /\ ready <=> (issues = <<>>)
        /\ (/\ ReportSnapshot.memory.available_gb = 800
            /\ HasGpuFinding(ReportHeavy)
            /\ ~ReportSnapshot.gpu.available) => Len(issues) = 1

\* C4: the memory rule fires exactly when the snapshot's available memory is
\* strictly below 4 GB: then the verdict is not ready and has an issue naming
\* the amount; at 4 GB or more there is no memory issue, whatever the GPU
\* rule does.
C4_MemoryRuleStrictlyBelowFour ==
    Returned("generate_readiness_report") =>
        LET gb == ReportSnapshot.memory.available_gb
        IN  /\ gb < 400 =>
                /\ ~ready
                /\ \E i \in 1..Len(issues) :
                        IsRamIssue(issues[i]) /\ contains(issues[i], float_str(gb))
            /\ gb >= 400 => \A i \in 1..Len(issues) : ~IsRamIssue(issues[i])
            /\ (gb = 200 /\ ~HasGpuFinding(ReportHeavy)) =>
                    issues = <<"Not enough RAM: 2.0 GB available">>

C4_Witness ==
    /\ Returned("generate_readiness_report")
    /\ ReportSnapshot.memory.available_gb = 200
    /\ ~ready
    /\ issues = <<"Not enough RAM: 2.0 GB available">>

\* C5: the GPU rule fires exactly when some heavy-usage finding contains
\* 'GPU usage detected' and the snapshot's GPU flag is false: then the
\* verdict is not ready and has the issue 'GPU is required but not
\* available'; otherwise there is no GPU issue and the memory rule alone
\* decides (8.0 GB and no heavy finding: ready, no issue).
C5_GpuRule ==
    Returned("generate_readiness_report") =>
        LET fires == HasGpuFinding(ReportHeavy) /\ ~ReportSnapshot.gpu.available
            gb == ReportSnapshot.memory.available_gb
        IN  /\ fires =>
                ~ready /\ Count(issues, "GPU is required but not available") >= 1
            /\ ~fires =>
                /\ Count(issues, "GPU is required but not available") = 0
                /\ ready <=> (gb >= 400)
            /\ (gb = 800 /\ ReportHeavy = <<Plain(SentinelText)>>) =>
                    ready /\ issues = <<>>

C5_Witness ==
    /\ Returned("generate_readiness_report")
    /\ HasGpuFinding(ReportHeavy)
    /\ ~ReportSnapshot.gpu.available
    /\ ReportSnapshot.memory.available_gb = 800
    /\ ~ready
    /\ issues = <<"GPU is required but not available">>

\* the manifest's lines stripped, without the empty ones and the ones that
\* begin with '#'
IsSpecifier(line) == line # "" /\ ~startswith(line, "#")
StrippedSpecifiers(lines) ==
    SelectSeq([i \in 1..Len(lines) |-> strip(lines[i])], IsSpecifier)

\* C6: analyze_project_dependencies returns the manifest's stripped lines,
\* without the empty ones and the ones that begin with '#' after stripping,
\* in file order with duplicates kept.
C6_DependenciesAreStrippedLines ==
    (name = "analyze_project_dependencies" /\ ManifestReads) =>
        result = Return(<<Json([python_packages |->
                                    StrippedSpecifiers(fs.manifest.lines)])>>)

\* C7: without a requirements.txt, analyze_project_dependencies returns the
\* structured result with an empty list, and detect_heavy_requirements
\* returns neither manifest-derived finding.
C7_MissingManifest ==
    ~fs.manifest.exists =>
        /\ name = "analyze_project_dependencies" =>
                result = Return(<<Json([python_packages |-> <<>>])>>)
        /\ Returned("detect_heavy_requirements") =>
                \A i \in 1..Len(result.entries) :
                    result.entries[i].plain \notin
                        {"ML framework detected - may require GPU/RAM",
                         "Large ML models detected - high GPU/VRAM recommended"}

C7_Witness ==
    /\ ~fs.manifest.exists
    /\ name = "analyze_project_dependencies"
    /\ result = Return(<<Json([python_packages |-> <<>>])>>)
    /\ fs.walk # <<>>

\* C8: in the manifest scan each keyword set gives one finding when any of
\* its keywords occurs in the lowercased manifest text and none otherwise.
C8_OneFindingPerKeywordSet ==
    (Returned("detect_heavy_requirements") /\ ManifestReads) =>
        LET reqs == lower(read(fs.manifest))
            frameworks == Count(result.entries,
                            Plain("ML framework detected - may require GPU/RAM"))
            large == Count(result.entries,
                            Plain("Large ML models detected - high GPU/VRAM recommended"))
        IN  /\ frameworks =
                IF \E lib \in {"tensorflow", "torch", "keras"} : contains(reqs, lib)
                THEN 1 ELSE 0
            /\ large =
                IF \E lib \in {"transformers", "diffusers"} : contains(reqs, lib)
                THEN 1 ELSE 0
            /\ fs.manifest.lines = <<"torch>=2.0">> => frameworks = 1 /\ large = 0

C8_Witness ==
    /\ Returned("detect_heavy_requirements")
    /\ fs.manifest.lines = <<"Transformers ", "diffusers">>
    /\ Count(result.entries,
             Plain("Large ML models detected - high GPU/VRAM recommended")) = 1

\* C9: in the returned list manifest-derived findings precede file-derived
\* ones, file-derived findings follow the order of the walk (for one file,
\* GPU usage before model reference), and the sentinel is the only entry
\* exactly when nothing else was found.
C9_FindingsOrder ==
    Returned("detect_heavy_requirements") =>
        LET e == result.entries
        IN  /\ Len(origin) = Len(e)
            /\ \A i \in 1..Len(e) :
                IF origin[i] = 0
                THEN e[i].plain \in {FrameworkText, LargeModelText, SentinelText}
                ELSE e[i].plain \in
                        {"GPU usage detected in " \o fs.walk[origin[i]].file,
                         "Large ML model reference detected in "
                            \o fs.walk[origin[i]].file}
            /\ \A i, j \in 1..Len(e) :
                i < j =>
                    /\ origin[i] <= origin[j]
                    /\ (origin[i] = origin[j] /\ origin[i] > 0) =>
                        /\ startswith(e[i].plain, "GPU usage detected in ")
                        /\ startswith(e[j].plain, "Large ML model reference detected in ")
            /\ e # <<>>
            /\ (\E i \in 1..Len(e) : e[i].plain = SentinelText) => Len(e) = 1

C9_Witness ==
    /\ Returned("detect_heavy_requirements")
    /\ Len(fs.walk) = 2
    /\ Len(result.entries) >= 4
    /\ result.entries[1] = Plain(FrameworkText)
    /\ result.entries[2] = Plain(LargeModelText)
    /\ origin[2] = 0
    /\ origin[Len(origin)] = 2
    /\ origin[Len(origin) - 1] = 1

\* C10: no invocation changes the host or the file system, and an
\* invocation of a tool produces what the first invocation of that tool
\* produced, whichever tools were invoked in between.
C10_ResultsDoNotDependOnHistory ==
    [][/\ host' = host
       /\ fs' = fs
       /\ name' \in DOMAIN seen => result' = seen[name']]_vars

C10_Witness ==
    /\ repeat
    /\ Returned("detect_heavy_requirements")
    /\ Len(result.entries) >= 2
    /\ Tools \subseteq DOMAIN seen

===========================================================================
